---------------------------- MODULE Spec2Model ----------------------------
(***************************************************************************)
(* A model of the Khan Academy crawler: the robots.txt policy parser       *)
(* (src/robots_parser.py, with the urllib.robotparser.RobotFileParser it   *)
(* delegates to), the retrying document fetcher and the rendering fallback *)
(* (src/extractor.py).                                                     *)
(*                                                                         *)
(* A path is the sequence of its segments: "/math/algebra" is              *)
(* <<"math", "algebra">>; str.startswith is the prefix order on segments.  *)
(* A policy document is its sequence of directive lines, written in the    *)
(* canonical spelling ("Allow: /x"), without comments or blank lines, plus *)
(* its Sitemap lines (their position among the others changes nothing in   *)
(* either parser).  The site serves one document for the whole run.        *)
(***************************************************************************)
EXTENDS Integers, Sequences, FiniteSets, TLC

VARIABLES
    robots_content,      \* the policy document the site serves
    rp,                  \* self.rp, the RobotFileParser
    allowed_paths,       \* self.allowed_paths
    disallowed_paths,    \* self.disallowed_paths
    sitemaps,            \* self.sitemaps
    crawl_delay,         \* self.crawl_delay (None or a number)
    crawlability_score,  \* self.crawlability_score
    score,               \* the local `score` of the last _calculate_crawlability_score
    parse_call,          \* the last parse(): what its two requests met, what it returned
    fetch,               \* the fetch_url call in progress or last finished
    PLAYWRIGHT_AVAILABLE,\* whether the import of playwright succeeded
    pw,                  \* the extract_with_playwright call in progress or last finished
    topic_tree,          \* the content tree the structured source answers with
    api_courses,         \* what extract_courses returned for it
    handler,             \* the KhanAcademyAPIHandler: its fields, its calls so far
    all_courses,         \* the nested course list of scrape_khan_academy
    files,               \* the artifacts on disk: which run wrote each, and what
    run                  \* the crawl run in progress or last finished

vars == <<robots_content, rp, allowed_paths, disallowed_paths, sitemaps,
          crawl_delay, crawlability_score, score, parse_call, fetch,
          PLAYWRIGHT_AVAILABLE, pw, topic_tree, api_courses, handler,
          all_courses, files, run>>

\* what the rendering fallback keeps to itself
renderVars == <<PLAYWRIGHT_AVAILABLE, pw>>

\* what the structured-source client keeps to itself
apiVars == <<topic_tree, api_courses, handler>>

\* what scrape_khan_academy keeps to itself
runVars == <<all_courses, files, run>>

\* what neither the parser nor fetch_url touches
crawlVars == <<renderVars, apiVars, runVars>>

parserVars == <<rp, allowed_paths, disallowed_paths, sitemaps, crawl_delay,
                crawlability_score, score, parse_call>>

-----------------------------------------------------------------------------
(* Bounds of the model *)

\* lines of a policy document (besides its Sitemap lines)
MaxLines == 3

\* Sitemap lines of a policy document
MaxSitemaps == 1

\* parse() calls on one parser, where a parser is parsed again
MaxParses == 2

\* lines of the policy document of a parser that is parsed again
MaxLinesReparsed == 2
MaxNodes == 4            \* nodes of a content tree
MaxCourses == 2          \* courses of a nested course list
MaxUnits == 2            \* units of a course
MaxRuns == 2             \* crawl runs, one after the other
MaxSeeds == 2            \* states the random generator may start a run in
MaxSubjects == 2         \* subject listings a scraping run goes through
MaxCards == 2            \* course cards on the subject listings of a run
MaxProbes == 3           \* probes of one handler

-----------------------------------------------------------------------------
(* Values *)

\* Python's None, where a number is expected (delays are never negative)
None == -1

user_agent == "KhanAcademyResearchBot"

P_math      == <<"math">>
P_algebra   == <<"math", "algebra">>
P_science   == <<"science">>
P_computing == <<"computing">>
P_humanities == <<"humanities">>
P_economics == <<"economics-finance-domain">>
P_profile   == <<"profile">>
P_login     == <<"login">>
P_signup    == <<"signup">>

\* the URLs (by path) the permission check is asked about
Urls == {P_math, P_algebra, P_science, P_computing, P_humanities, P_economics,
         P_profile, P_login, P_signup}

\* the URLs fetch_url is called on
FetchUrls == {P_math, P_profile}

\* the delays a Crawl-delay line states
Delays == {0, 1, 5, 10, 11}

Line(k, agent, path, n) == [k |-> k, agent |-> agent, path |-> path, n |-> n]

UserAgentLine(a)  == Line("User-agent", a, <<>>, 0)
AllowLine(p)      == Line("Allow", "", p, 0)
DisallowLine(p)   == Line("Disallow", "", p, 0)
CrawlDelayLine(n) == Line("Crawl-delay", "", <<>>, n)

Lines ==
    {UserAgentLine("*"), UserAgentLine("Googlebot")}
    \cup {AllowLine(P_algebra)}
    \cup {DisallowLine(p) : p \in {P_math, P_profile, P_login}}
    \cup {CrawlDelayLine(n) : n \in Delays}

SeqsUpTo(S, n) == UNION {[1..k -> S] : k \in 0..n}

SitemapUrl(i) == <<"sitemap", i>>

\* the documents the site may serve
Docs == [lines : SeqsUpTo(Lines, MaxLines),
         sitemaps : {[i \in 1..k |-> SitemapUrl(i)] : k \in 0..MaxSitemaps}]

StartsWith(s, p) == Len(p) <= Len(s) /\ SubSeq(s, 1, Len(p)) = p

-----------------------------------------------------------------------------
(* urllib.robotparser.RobotFileParser, as the parser uses it *)

Entry == [useragents |-> <<>>, rulelines |-> <<>>, delay |-> None]

RuleLine(path, allowance) == [path |-> path, allowance |-> allowance]

\* RobotFileParser(): nothing read yet
RobotFileParser ==
    [entries |-> <<>>, default_entry |-> <<>>, disallow_all |-> FALSE,
     allow_all |-> FALSE, last_checked |-> FALSE]

InSeq(x, s) == \E i \in 1..Len(s) : s[i] = x

\* _add_entry: the first "*" entry is the default entry, the others queue up
AddEntry(r, entry) ==
    IF InSeq("*", entry.useragents)
    THEN IF r.default_entry = <<>>
         THEN [r EXCEPT !.default_entry = <<entry>>]
         ELSE r
    ELSE [r EXCEPT !.entries = Append(@, entry)]

\* one line of RobotFileParser.parse; p is [r, state, entry]
RpParseLine(p, line) ==
    CASE line.k = "User-agent" ->
            LET q == IF p.state = 2
                     THEN [p EXCEPT !.r = AddEntry(p.r, p.entry), !.entry = Entry]
                     ELSE p
            IN  [q EXCEPT !.entry.useragents = Append(@, line.agent), !.state = 1]
      [] line.k \in {"Allow", "Disallow"} ->
            IF p.state # 0
            THEN [p EXCEPT !.entry.rulelines =
                               Append(@, RuleLine(line.path, line.k = "Allow")),
                           !.state = 2]
            ELSE p
      [] line.k = "Crawl-delay" ->
            IF p.state # 0
            THEN [p EXCEPT !.entry.delay = line.n, !.state = 2]
            ELSE p

RECURSIVE RpParseLines(_, _, _)
RpParseLines(p, lines, i) ==
    IF i > Len(lines) THEN p
    ELSE RpParseLines(RpParseLine(p, lines[i]), lines, i + 1)

\* RobotFileParser.parse(lines): modified(), the lines, the last entry
RpParse(r, lines) ==
    LET p == RpParseLines([r |-> [r EXCEPT !.last_checked = TRUE],
                           state |-> 0, entry |-> Entry], lines, 1)
    IN  IF p.state = 2 THEN AddEntry(p.r, p.entry) ELSE p.r

\* what urlopen(robots.txt) of RobotFileParser.read may meet
RpOutcomes == {"ok", "http403", "http404", "http503", "urlerror"}

\* RobotFileParser.read, when urlopen does not raise out of it
RpRead(r, outcome, doc) ==
    CASE outcome = "ok"      -> RpParse(r, doc.lines)
      [] outcome = "http403" -> [r EXCEPT !.disallow_all = TRUE]
      [] outcome = "http404" -> [r EXCEPT !.allow_all = TRUE]
      [] OTHER               -> r

\* Entry.applies_to(useragent): "*" or a substring of the agent's name
AppliesTo(entry, useragent) ==
    \E i \in 1..Len(entry.useragents) :
        entry.useragents[i] \in {"*", useragent}

\* Entry.allowance(filename): the first rule line that applies decides
RECURSIVE Allowance(_, _, _)
Allowance(rulelines, url, i) ==
    IF i > Len(rulelines) THEN TRUE
    ELSE IF StartsWith(url, rulelines[i].path) THEN rulelines[i].allowance
    ELSE Allowance(rulelines, url, i + 1)

RECURSIVE FirstEntry(_, _, _)
FirstEntry(entries, useragent, i) ==
    IF i > Len(entries) THEN <<>>
    ELSE IF AppliesTo(entries[i], useragent) THEN <<entries[i]>>
    ELSE FirstEntry(entries, useragent, i + 1)

\* the entry RobotFileParser answers from: the first that applies, else the default
EntryFor(r, useragent) ==
    LET e == FirstEntry(r.entries, useragent, 1)
    IN  IF e # <<>> THEN e ELSE r.default_entry

\* RobotFileParser.can_fetch(useragent, url)
RpCanFetch(r, useragent, url) ==
    IF r.disallow_all THEN FALSE
    ELSE IF r.allow_all THEN TRUE
    ELSE IF ~r.last_checked THEN FALSE
    ELSE LET e == EntryFor(r, useragent)
         IN  IF e = <<>> THEN TRUE ELSE Allowance(e[1].rulelines, url, 1)

\* RobotFileParser.crawl_delay(useragent)
RpCrawlDelay(r, useragent) ==
    IF ~r.last_checked THEN None
    ELSE LET e == EntryFor(r, useragent)
         IN  IF e = <<>> THEN None ELSE e[1].delay

-----------------------------------------------------------------------------
(* KhanAcademyRobotsParser *)

base_url == "https://www.khanacademy.org"

\* what requests.get(robots.txt) of parse() may meet
GetOutcomes == {"200", "non200", "exception"}

\* the paths of the lines of one kind that state a path, in document order
PathsOf(lines, kind) ==
    LET keep(l) == l.k = kind /\ l.path # <<>>
    IN  [i \in 1..Len(SelectSeq(lines, keep)) |-> SelectSeq(lines, keep)[i].path]

\* re.search(r'Crawl-delay:\s*(\d+)', robots_content): the first such line
DelayMatch(lines) ==
    LET isDelay(l) == l.k = "Crawl-delay"
        found == SelectSeq(lines, isDelay)
    IN  IF found = <<>> THEN None ELSE found[1].n

\* Python truth of a number or None
Truthy(x) == x # None /\ x # 0

\* parse, lines 48-54: the RobotFileParser's delay, else the first in the text
ParsedCrawlDelay(r, lines) ==
    LET d == RpCrawlDelay(r, user_agent)
    IN  IF ~Truthy(d) /\ DelayMatch(lines) # None THEN DelayMatch(lines) ELSE d

\* a sitemap bonus of 30 instead of 20
SitemapTerm_Thirty(smaps) == IF smaps # <<>> THEN 30 ELSE 0

SitemapTerm(smaps) == IF smaps # <<>> THEN 20 ELSE 0

\* the flat 30 also when rules exist and none of them allows
RatioTerm_NoneAllowedBranch(allowed, disallowed) ==
    LET total_rules == Len(allowed) + Len(disallowed)
    IN  IF Len(allowed) > 0 THEN (Len(allowed) * 30) \div total_rules ELSE 30

\* int(allowed_ratio * 30): the float product truncates to the integer floor
\* for every pair of counts the model reaches
RatioTerm(allowed, disallowed) ==
    LET total_rules == Len(allowed) + Len(disallowed)
    IN  IF total_rules > 0 THEN (Len(allowed) * 30) \div total_rules ELSE 30

\* `< 5` for `<= 5`
DelayTerm_StrictFive(delay) ==
    IF Truthy(delay)
    THEN IF delay <= 1 THEN 30
         ELSE IF delay < 5 THEN 20
         ELSE IF delay <= 10 THEN 10
         ELSE 5
    ELSE 30

DelayTerm(delay) ==
    IF Truthy(delay)
    THEN IF delay <= 1 THEN 30
         ELSE IF delay <= 5 THEN 20
         ELSE IF delay <= 10 THEN 10
         ELSE 5
    ELSE 30

\* the local `score` when _calculate_crawlability_score reaches its line 113
LocalScore(smaps, allowed, disallowed, delay) ==
    0 + 20 + SitemapTerm(smaps) + RatioTerm(allowed, disallowed) + DelayTerm(delay)

\* the override without its `not`
Override_AllowedPresent(allowed, disallowed) ==
    base_url = "https://www.khanacademy.org" /\ allowed # <<>> /\ Len(disallowed) > 0

\* the override for Khan Academy
Override(allowed, disallowed) ==
    base_url = "https://www.khanacademy.org" /\ allowed = <<>> /\ Len(disallowed) > 0

\* _calculate_crawlability_score: what it stores in self.crawlability_score
CalculateCrawlabilityScore(smaps, allowed, disallowed, delay) ==
    IF Override(allowed, disallowed) THEN 70
    ELSE LocalScore(smaps, allowed, disallowed, delay)

DefaultAllowed == <<P_math, P_science, P_computing, P_humanities, P_economics>>
DefaultDisallowed == <<P_profile, P_login, P_signup>>

\* _use_default_values without its reset of the sitemaps
UseDefaultValues_KeepsSitemaps ==
    /\ allowed_paths' = DefaultAllowed
    /\ disallowed_paths' = DefaultDisallowed
    /\ sitemaps' = sitemaps
    /\ crawl_delay' = 1
    /\ crawlability_score' = 70
    /\ UNCHANGED score

\* _use_default_values
UseDefaultValues ==
    /\ allowed_paths' = DefaultAllowed
    /\ disallowed_paths' = DefaultDisallowed
    /\ sitemaps' = <<>>
    /\ crawl_delay' = 1
    /\ crawlability_score' = 70
    /\ UNCHANGED score

\* parse, lines 29-59: the raw text was fetched with status 200
ParseContent(doc) ==
    /\ sitemaps' = doc.sitemaps
    /\ allowed_paths' = allowed_paths \o PathsOf(doc.lines, "Allow")
    /\ disallowed_paths' = disallowed_paths \o PathsOf(doc.lines, "Disallow")
    /\ crawl_delay' = ParsedCrawlDelay(rp', doc.lines)
    /\ score' = LocalScore(sitemaps', allowed_paths', disallowed_paths', crawl_delay')
    /\ crawlability_score' =
           CalculateCrawlabilityScore(sitemaps', allowed_paths', disallowed_paths',
                                      crawl_delay')

\* what parse() returns after an exception was caught (line 69)
ReturnAfterException == "True"

\* parse(): rp.read() met rpo; requests.get, if reached, met geto
Parse(rpo, geto) ==
    /\ IF rpo = "urlerror"
       THEN /\ rp' = rp
            /\ UseDefaultValues
            /\ parse_call' = [n |-> parse_call.n + 1, rp |-> rpo, get |-> "unreached",
                              ret |-> ReturnAfterException]
       ELSE /\ rp' = RpRead(rp, rpo, robots_content)
            /\ CASE geto = "200" ->
                      /\ ParseContent(robots_content)
                      /\ parse_call' = [n |-> parse_call.n + 1, rp |-> rpo,
                                        get |-> geto, ret |-> "True"]
                 [] geto = "non200" ->
                      /\ UseDefaultValues
                      /\ parse_call' = [n |-> parse_call.n + 1, rp |-> rpo,
                                        get |-> geto, ret |-> "True"]
                 [] geto = "exception" ->
                      /\ UseDefaultValues
                      /\ parse_call' = [n |-> parse_call.n + 1, rp |-> rpo,
                                        get |-> geto, ret |-> ReturnAfterException]
    /\ UNCHANGED <<robots_content, fetch, crawlVars>>

\* can_fetch(url)
CanFetch(url) == RpCanFetch(rp, user_agent, url)

\* get_crawl_delay()
GetCrawlDelay == IF Truthy(crawl_delay) THEN crawl_delay ELSE 1

\* get_summary()
GetSummary ==
    [allowed_paths |-> allowed_paths, disallowed_paths |-> disallowed_paths,
     sitemaps |-> sitemaps, crawl_delay |-> crawl_delay,
     crawlability_score |-> crawlability_score]

\* KhanAcademyRobotsParser(): the fields after construction
InitParser ==
    /\ rp = RobotFileParser
    /\ allowed_paths = <<>>
    /\ disallowed_paths = <<>>
    /\ sitemaps = <<>>
    /\ crawl_delay = None
    /\ crawlability_score = 0
    /\ score = 0
    /\ parse_call = [n |-> 0, rp |-> "none", get |-> "none", ret |-> "none"]

-----------------------------------------------------------------------------
(* fetch_url, under @retry(stop_max_attempt_number=3, wait_fixed=2000) *)

stop_max_attempt_number == 3

\* what requests.get(url) followed by raise_for_status() may meet: a response,
\* or an exception (a transport error, a status raise_for_status rejects)
AttemptOutcomes == {"ok", "error"}

NoFetch == [pc |-> "idle", url |-> <<>>, attempts |-> 0, requests |-> 0,
            log |-> <<>>, result |-> "none"]

\* a caller calls fetch_url(url, robots_parser)
FetchCall(url) ==
    /\ fetch.pc # "running"
    /\ fetch' = [NoFetch EXCEPT !.pc = "running", !.url = url]
    /\ UNCHANGED <<robots_content, parserVars, crawlVars>>

\* `>` for `>=`: one attempt more
ShouldStop_OffByOne(attempt_number) == attempt_number > stop_max_attempt_number

\* should the retry loop stop after this failed attempt
ShouldStop(attempt_number) == attempt_number >= stop_max_attempt_number

\* the permission check skipped
PolicyDenies_Never(url) == FALSE

\* fetch_url, line 67: the policy forbids the URL
PolicyDenies(url) == ~CanFetch(url)

\* one attempt of the retry loop: the body of fetch_url, then the retry decision
FetchAttempt(outcome) ==
    /\ fetch.pc = "running"
    /\ LET attempt_number == fetch.attempts + 1
       IN  IF PolicyDenies(fetch.url)
           THEN fetch' = [fetch EXCEPT !.attempts = attempt_number,
                                       !.pc = "returned", !.result = "None"]
           ELSE LET f == [fetch EXCEPT !.attempts = attempt_number,
                                       !.requests = @ + 1,
                                       !.log = Append(@, outcome)]
                IN  IF outcome = "ok"
                    THEN fetch' = [f EXCEPT !.pc = "returned", !.result = "response"]
                    ELSE IF ShouldStop(attempt_number)
                    THEN fetch' = [f EXCEPT !.pc = "raised", !.result = outcome]
                    ELSE fetch' = f
    /\ UNCHANGED <<robots_content, parserVars, crawlVars>>

-----------------------------------------------------------------------------
(* extract_with_playwright *)

\* handler is the except clause that ran: the inner one (line 105) or the
\* outer one (line 109)
NoRender == [pc |-> "idle", url |-> <<>>, browser |-> "none", launched |-> 0,
             handler |-> "none", result |-> "none"]

\* what a call into playwright may meet: it works, or it raises (an error of
\* the automation, a navigation error, a timeout of the wait)
StepOutcomes == {"ok", "error"}

\* the with statement's exit stops playwright without closing the browsers
PlaywrightStop_LeavesBrowser(browser) == browser

\* leaving `with sync_playwright()`: playwright stops, and its driver closes
\* every browser that is still open
PlaywrightStop(browser) == IF browser = "open" THEN "closed" ELSE browser

\* a caller calls extract_with_playwright(url, robots_parser): lines 77-86
RenderCall(url) ==
    /\ pw.pc \in {"idle", "returned"}
    /\ pw' = IF ~PLAYWRIGHT_AVAILABLE \/ ~CanFetch(url)
             THEN [NoRender EXCEPT !.pc = "returned", !.url = url, !.result = "None"]
             ELSE [NoRender EXCEPT !.pc = "sync_playwright", !.url = url]
    /\ UNCHANGED <<robots_content, parserVars, fetch, PLAYWRIGHT_AVAILABLE, apiVars, runVars>>

\* the next call into playwright of the body, lines 87-108; an exception of the
\* inner try closes the browser, every way out of the with statement leaves it
RenderStep(outcome) ==
    /\ pw.pc \notin {"idle", "returned"}
    /\ pw' =
         CASE pw.pc = "sync_playwright" ->
                  IF outcome = "ok" THEN [pw EXCEPT !.pc = "launch"]
                  ELSE [pw EXCEPT !.pc = "returned", !.handler = "outer",
                                  !.result = "None"]
           [] pw.pc = "launch" ->
                  IF outcome = "ok"
                  THEN [pw EXCEPT !.pc = "new_context", !.browser = "open",
                                  !.launched = @ + 1]
                  ELSE [pw EXCEPT !.pc = "with_exit", !.handler = "outer",
                                  !.result = "None"]
           [] pw.pc = "new_context" ->
                  IF outcome = "ok" THEN [pw EXCEPT !.pc = "new_page"]
                  ELSE [pw EXCEPT !.pc = "with_exit", !.handler = "outer",
                                  !.result = "None"]
           [] pw.pc = "new_page" ->
                  IF outcome = "ok" THEN [pw EXCEPT !.pc = "goto"]
                  ELSE [pw EXCEPT !.pc = "with_exit", !.handler = "outer",
                                  !.result = "None"]
           [] pw.pc = "goto" ->
                  IF outcome = "ok" THEN [pw EXCEPT !.pc = "wait_for_selector"]
                  ELSE [pw EXCEPT !.pc = "with_exit", !.browser = "closed",
                                  !.handler = "inner", !.result = "None"]
           [] pw.pc = "wait_for_selector" ->
                  IF outcome = "ok" THEN [pw EXCEPT !.pc = "content"]
                  ELSE [pw EXCEPT !.pc = "with_exit", !.browser = "closed",
                                  !.handler = "inner", !.result = "None"]
           [] pw.pc = "content" ->
                  IF outcome = "ok"
                  THEN [pw EXCEPT !.pc = "with_exit", !.browser = "closed",
                                  !.result = "content"]
                  ELSE [pw EXCEPT !.pc = "with_exit", !.browser = "closed",
                                  !.handler = "inner", !.result = "None"]
           [] pw.pc = "with_exit" ->
                  [pw EXCEPT !.pc = "returned", !.browser = PlaywrightStop(@)]
    /\ UNCHANGED <<robots_content, parserVars, fetch, PLAYWRIGHT_AVAILABLE, apiVars, runVars>>

-----------------------------------------------------------------------------
(* KhanAcademyAPIHandler.extract_courses.  A content tree is kept flat:    *)
(* node 1 is the root, parent[i] < i is the parent of node i, and the      *)
(* children of a node are in the order of their numbers.  A string is the  *)
(* sequence of its parts, "" is <<>> and + is \o.                          *)

Kinds == {"Topic", "Video"}
Slugs == {<<>>, <<"a">>}

\* the trees of n nodes; a node's title is its number
TreesOf(n) ==
    { [n |-> n, kind |-> k, slug |-> g, parent |-> p] :
        k \in [1..n -> Kinds], g \in [1..n -> Slugs],
        p \in { q \in [1..n -> 0..n] : \A i \in 1..n : IF i = 1 THEN q[i] = 0
                                                         ELSE q[i] \in 1..(i-1) } }

\* what get_topic_tree returns when it has no tree: None
NoTree == [n |-> 0, kind |-> <<>>, slug |-> <<>>, parent |-> <<>>]

Trees == UNION { TreesOf(n) : n \in 1..MaxNodes }

RECURSIVE SortedSeq(_)
SortedSeq(S) ==
    IF S = {} THEN <<>>
    ELSE LET m == CHOOSE x \in S : \A y \in S : x <= y
         IN <<m>> \o SortedSeq(S \ {m})

\* node.get('children', [])
Children(t, i) == SortedSeq({ j \in 1..t.n : t.parent[j] = i })

site_base == <<"https://www.khanacademy.org/">>

\* the path of a node is its slug under every parent path, the empty one too
CurrentPath_AlwaysSlash(parent_path, slug) == parent_path \o <<"/">> \o slug

\* line 119
CurrentPath(parent_path, slug) ==
    IF parent_path # <<>> THEN parent_path \o <<"/">> \o slug ELSE slug

RECURSIVE process_node(_, _, _), ProcessChildren(_, _, _)
\* lines 118-134: the records process_node appends, in the order it appends them
process_node(t, i, parent_path) ==
    LET current_path == CurrentPath(parent_path, t.slug[i])
        record == [title |-> i, slug |-> t.slug[i], path |-> current_path,
                   description |-> <<>>, child_count |-> Len(Children(t, i)),
                   url |-> site_base \o current_path]
        own == IF t.kind[i] = "Topic" /\ t.slug[i] # <<>> THEN <<record>> ELSE <<>>
    IN own \o ProcessChildren(t, Children(t, i), current_path)

\* lines 133-134
ProcessChildren(t, children, current_path) ==
    IF children = <<>> THEN <<>>
    ELSE process_node(t, Head(children), current_path)
             \o ProcessChildren(t, Tail(children), current_path)

\* extract_courses(topic_tree) on a tree that is there
ExtractCoursesOf(t) == IF t.n = 0 THEN <<>> ELSE process_node(t, 1, <<>>)

\* no call of extract_courses has returned
NoCourses == [returned |-> FALSE, courses |-> <<>>]

\* a caller calls extract_courses(topic_tree)
ExtractCourses ==
    /\ ~api_courses.returned
    /\ api_courses' = [returned |-> TRUE, courses |-> ExtractCoursesOf(topic_tree)]
    /\ UNCHANGED <<robots_content, parserVars, fetch, renderVars, topic_tree, handler,
                   runVars>>

-----------------------------------------------------------------------------
(* The persistence of scrape_khan_academy: the nested course list as JSON, *)
(* its flattened projection as CSV                                          *)

\* a file that was never written
Absent == [written |-> 0, content |-> <<>>]

NoFiles == [robots_analysis |-> Absent, api_status |-> Absent, api_csv |-> Absent,
            data_json |-> Absent, data_csv |-> Absent]

\* subject, cards, log, events and seen are those of the scraping branch: the
\* subject listing in turn, its cards still to process, what was done with the
\* others, the subjects taken up, course pages asked for and pauses made, in
\* order, and the number of cards the listings had so far
NoRun == [n |-> 0, pc |-> "idle", probe |-> "none", extracted |-> "none",
          seed |-> 0, prev |-> <<>>, subject |-> 1, cards |-> <<>>, log |-> <<>>,
          events |-> <<>>, seen |-> 0]

RECURSIVE SumLessons(_)
\* sum(len(unit.get('lessons', [])) for unit in units)
SumLessons(units) ==
    IF units = <<>> THEN 0 ELSE Len(Head(units).lessons) + SumLessons(Tail(units))

\* the lesson count is the number of units
LessonCount_CountsUnits(course) == Len(course.units)

\* line 311
LessonCount(course) == SumLessons(course.units)

\* lines 308-320: the flat record of one course
FlatRecord(course) ==
    [title |-> course.title, url |-> course.url, description |-> course.description,
     subject |-> course.subject, unit_count |-> Len(course.units),
     lesson_count |-> LessonCount(course)]

\* lines 307-320
Flatten(courses) == [i \in 1..Len(courses) |-> FlatRecord(courses[i])]

\* lines 303-328 (and 207-232): the files after saving the courses in run n
SaveData(f, courses, n) ==
    IF courses # <<>>
    THEN [f EXCEPT !.data_json = [written |-> n, content |-> courses],
                   !.data_csv = [written |-> n, content |-> Flatten(courses)]]
    ELSE f

\* the persistence block, on the course list the run has collected
SaveCourses ==
    /\ run.pc = "save"
    /\ files' = SaveData(files, all_courses, run.n)
    /\ run' = [run EXCEPT !.pc = "done"]
    /\ UNCHANGED <<robots_content, parserVars, fetch, renderVars, apiVars, all_courses>>

\* the lessons a unit may hold
LessonCounts == {0, 2}

Lesson(k) == [title |-> <<"Lesson", k>>, url |-> <<"lesson", k>>, type |-> "Video"]

Unit(j, lessons) == [title |-> <<"Unit", j>>, lessons |-> [k \in 1..lessons |-> Lesson(k)]]

Course(i, units) ==
    [title |-> <<"Course", i>>, url |-> <<"course", i>>, description |-> <<>>,
     subject |-> "math", units |-> units]

\* the nested course lists: course i of a list has any number of units up to
\* MaxUnits, each with a number of lessons of LessonCounts
NestedCourses ==
    LET UnitCounts == UNION { [1..u -> LessonCounts] : u \in 0..MaxUnits }
    IN UNION { { [i \in 1..c |-> Course(i, [j \in 1..Len(counts[i]) |-> Unit(j, counts[i][j])])] :
                   counts \in [1..c -> UnitCounts] } : c \in 0..MaxCourses }

-----------------------------------------------------------------------------
(* create_mock_courses.  The draws of a run are those of Python's random    *)
(* generator, seeded afresh by every process: the values of one run are a  *)
(* function of the state the generator started in, and the runs are free   *)
(* to start in different states.                                            *)

subjects == <<"math", "science", "computing", "humanities",
              "economics-finance-domain", "test-prep">>

\* subject.capitalize()
Capitalize(subject) ==
    CASE subject = "math" -> "Math"
      [] subject = "science" -> "Science"
      [] subject = "computing" -> "Computing"
      [] subject = "humanities" -> "Humanities"
      [] subject = "economics-finance-domain" -> "Economics-finance-domain"
      [] subject = "test-prep" -> "Test-prep"

Seeds == 1..MaxSeeds

\* random.randint(a, b), as the draw numbered `draw` of a generator started in
\* state `seed`: a value of a..b
RandInt(seed, draw, a, b) == a + ((seed + draw) % (b - a + 1))

lesson_types == <<"Video", "Article", "Exercise">>

\* lines 349-356
MockLesson(seed, s, i, j, k) ==
    [title |-> <<"Lesson ", k, ": ", Capitalize(subjects[s]), " Topic">>,
     url |-> <<"https://www.khanacademy.org/", subjects[s], "/course-", i,
               "/unit-", j, "/lesson-", k>>,
     type |-> lesson_types[RandInt(seed, s + i + j + k, 1, 3)]]

\* lines 345-361
MockUnit(seed, s, i, j) ==
    [title |-> <<"Unit ", j, ": ", Capitalize(subjects[s]), " Fundamentals">>,
     lessons |-> [k \in 1..RandInt(seed, s + i + j, 3, 8) |-> MockLesson(seed, s, i, j, k)]]

\* lines 339-369
MockCourse(seed, s, i) ==
    [title |-> <<Capitalize(subjects[s]), " Course ", i>>,
     url |-> <<"https://www.khanacademy.org/", subjects[s], "/course-", i>>,
     description |-> <<"This is a mock description for ", Capitalize(subjects[s]),
                       " Course ", i>>,
     subject |-> subjects[s],
     units |-> [j \in 1..RandInt(seed, s + i, 2, 5) |-> MockUnit(seed, s, i, j)]]

RECURSIVE MockCoursesFrom(_, _)
\* lines 337-369, from subject s on
MockCoursesFrom(seed, s) ==
    IF s > Len(subjects) THEN <<>>
    ELSE [i \in 1..RandInt(seed, s, 2, 4) |-> MockCourse(seed, s, i)]
             \o MockCoursesFrom(seed, s + 1)

create_mock_courses(seed) == MockCoursesFrom(seed, 1)

-----------------------------------------------------------------------------
(* check_api_availability and extract_content_to_csv *)

ProbeOutcomes == {"200", "non200", "exception"}

endpoints == [topictree |-> "/api/v1/topictree", playlists |-> "/api/v1/playlists",
              badges |-> "/api/v1/badges"]

\* lines 32-41: the record check_api_availability writes on status 200
AvailableStatus ==
    [api_available |-> TRUE, endpoints |-> endpoints,
     rate_limit |-> "60 requests per minute", authentication |-> "API Key required"]

\* lines 61-71: the record _save_mock_api_status(available) writes at time now
MockApiStatus(available, now) ==
    [api_available |-> available, endpoints |-> endpoints,
     rate_limit |-> "60 requests per minute", authentication |-> "API Key required",
     last_check |-> now]

\* what check_api_availability writes to api_status.json at time now
StatusWritten(outcome, now) ==
    IF outcome = "200" THEN AvailableStatus ELSE MockApiStatus(FALSE, now)

\* no get_api_status() has returned
NoStatus == [called |-> FALSE, api_available |-> FALSE, endpoints |-> <<>>,
             probed |-> FALSE, probes_before |-> 0]

\* __init__, lines 21-22: the fields; probes are the answers the probes of this
\* handler met, returned is what the last check_api_availability returned, and
\* status what the last get_api_status returned
NoHandler == [api_available |-> FALSE, endpoints_status |-> <<>>, probes |-> <<>>,
              returned |-> "none", status |-> NoStatus]

\* lines 24-56: what check_api_availability does to the handler; it assigns to
\* neither self.api_available nor self.endpoints_status
Probe(h, outcome) ==
    [h EXCEPT !.probes = Append(@, outcome),
              !.returned = IF outcome = "200" THEN "True" ELSE "False"]

\* a caller calls check_api_availability()
CheckAvailabilityCall(outcome) ==
    /\ Len(handler.probes) < MaxProbes
    /\ handler' = Probe(handler, outcome)
    /\ files' = [files EXCEPT !.api_status =
                     [written |-> 1,
                      content |-> StatusWritten(outcome, Len(handler.probes) + 1)]]
    /\ UNCHANGED <<robots_content, parserVars, fetch, renderVars, topic_tree, api_courses,
                   all_courses, run>>

\* lines 141-149: a caller calls get_api_status(); the probe of line 144, when
\* it is made, meets outcome
GetApiStatus(outcome) ==
    /\ Len(handler.probes) < MaxProbes
    /\ LET probing == handler.endpoints_status = <<>>
           h == IF probing THEN Probe(handler, outcome) ELSE handler
       IN /\ ~probing => outcome = "200"
          /\ handler' = [h EXCEPT !.status =
                             [called |-> TRUE, api_available |-> h.api_available,
                              endpoints |-> h.endpoints_status, probed |-> probing,
                              probes_before |-> Len(handler.probes)]]
          /\ files' = IF probing
                      THEN [files EXCEPT !.api_status =
                               [written |-> 1,
                                content |-> StatusWritten(outcome, Len(handler.probes) + 1)]]
                      ELSE files
    /\ UNCHANGED <<robots_content, parserVars, fetch, renderVars, topic_tree, api_courses,
                   all_courses, run>>

\* the content trees a run may be answered with, and no tree
RunTrees == {NoTree} \cup TreesOf(1)

-----------------------------------------------------------------------------
(* __main__ and scrape_khan_academy *)

create_mock_data == TRUE

\* a new process runs __main__: nothing of an earlier run is in memory, the
\* files are on disk; line 378 constructs the parser
MainStart ==
    /\ run.pc \in {"idle", "done"}
    /\ run.n < MaxRuns
    /\ rp' = RobotFileParser
    /\ allowed_paths' = <<>>
    /\ disallowed_paths' = <<>>
    /\ sitemaps' = <<>>
    /\ crawl_delay' = None
    /\ crawlability_score' = 0
    /\ score' = 0
    /\ parse_call' = [n |-> 0, rp |-> "none", get |-> "none", ret |-> "none"]
    /\ fetch' = NoFetch
    /\ pw' = NoRender
    /\ topic_tree' = NoTree
    /\ api_courses' = NoCourses
    /\ handler' = NoHandler
    /\ all_courses' = <<>>
    /\ run' = [NoRun EXCEPT !.n = run.n + 1, !.pc = "parse",
                            !.prev = IF run.n = 0 THEN <<>>
                                     ELSE [probe |-> run.probe, tree |-> topic_tree,
                                           rows |-> files.data_csv.content,
                                           api_rows |-> files.api_csv.content]]
    /\ UNCHANGED <<robots_content, PLAYWRIGHT_AVAILABLE, files>>

\* lines 379-394: parse() returned, the summary is saved and the scraper called
SaveAnalysis ==
    /\ run.pc = "parse"
    /\ parse_call.n > 0
    /\ IF parse_call.ret = "True"
       THEN /\ files' = [files EXCEPT !.robots_analysis =
                                          [written |-> run.n, content |-> GetSummary]]
            /\ run' = [run EXCEPT !.pc = "probe"]
       ELSE /\ run' = [run EXCEPT !.pc = "done"]
            /\ UNCHANGED files
    /\ UNCHANGED <<robots_content, parserVars, fetch, renderVars, apiVars, all_courses>>

\* lines 189-190, api_handler.py 24-56: the probe, and the status file it writes
CheckApiAvailability(outcome) ==
    /\ run.pc = "probe"
    /\ handler' = Probe(handler, outcome)
    /\ files' = [files EXCEPT !.api_status =
                     [written |-> run.n, content |-> StatusWritten(outcome, run.n)]]
    /\ run' = [run EXCEPT !.probe = outcome,
                          !.pc = IF outcome = "200" THEN "extract" ELSE "fallback"]
    /\ UNCHANGED <<robots_content, parserVars, fetch, renderVars, topic_tree, api_courses,
                   all_courses>>

\* the run goes on to the fallback whatever extract_content_to_csv returned
AfterExtract_FallsThrough(courses) == "fallback"

\* lines 195-197: `if courses: return`
AfterExtract(courses) == IF courses THEN "done" ELSE "fallback"

\* lines 192-197, api_handler.py 151-168: extract_content_to_csv, answered with
\* tree t, and the return of the run when it succeeded
ExtractContentToCsv(t) ==
    /\ run.pc = "extract"
    /\ topic_tree' = t
    /\ LET courses == ExtractCoursesOf(t)
           ok == t.n > 0 /\ courses # <<>>
       IN /\ api_courses' = IF t.n > 0 THEN [returned |-> TRUE, courses |-> courses]
                                       ELSE api_courses
          /\ files' = IF ok THEN [files EXCEPT !.api_csv = [written |-> run.n,
                                                           content |-> courses]]
                           ELSE files
          /\ run' = [run EXCEPT !.extracted = IF ok THEN "True" ELSE "False",
                                !.pc = AfterExtract(ok)]
    /\ UNCHANGED <<robots_content, parserVars, fetch, renderVars, handler, all_courses>>

\* lines 199-232: the fallback, which is the mock data under create_mock_data
Fallback(seed) ==
    /\ run.pc = "fallback"
    /\ IF create_mock_data
       THEN /\ all_courses' = create_mock_courses(seed)
            /\ files' = SaveData(files, create_mock_courses(seed), run.n)
            /\ run' = [run EXCEPT !.seed = seed, !.pc = "done"]
       ELSE /\ run' = [run EXCEPT !.pc = "scrape"]
            /\ UNCHANGED <<all_courses, files>>
    /\ UNCHANGED <<robots_content, parserVars, fetch, renderVars, apiVars>>

-----------------------------------------------------------------------------
(* The crawl run of extractor.py's __main__: a new parser, parse() once,   *)
(* then the fetches of the scraper                                          *)

\* the variables a specification does not use, at rest
RenderAtRest ==
    /\ PLAYWRIGHT_AVAILABLE = TRUE
    /\ pw = NoRender

ApiAtRest ==
    /\ topic_tree = NoTree
    /\ api_courses = NoCourses
    /\ handler = NoHandler

RunAtRest ==
    /\ all_courses = <<>>
    /\ files = NoFiles
    /\ run = NoRun

CrawlAtRest ==
    /\ RenderAtRest
    /\ ApiAtRest
    /\ RunAtRest

Init ==
    /\ robots_content \in Docs
    /\ InitParser
    /\ fetch = NoFetch
    /\ CrawlAtRest

Next ==
    \/ parse_call.n = 0 /\ \E rpo \in RpOutcomes, geto \in GetOutcomes : Parse(rpo, geto)
    \/ parse_call.n > 0 /\ \E url \in FetchUrls : FetchCall(url)
    \/ \E outcome \in AttemptOutcomes : FetchAttempt(outcome)

Spec == Init /\ [][Next]_vars

-----------------------------------------------------------------------------
(* One parser object whose parse() is called again and again *)

InitReparse ==
    /\ robots_content \in {d \in Docs : Len(d.lines) <= MaxLinesReparsed}
    /\ InitParser
    /\ fetch = NoFetch
    /\ CrawlAtRest

NextReparse ==
    /\ parse_call.n < MaxParses
    /\ \E rpo \in RpOutcomes, geto \in GetOutcomes : Parse(rpo, geto)

SpecReparse == InitReparse /\ [][NextReparse]_vars

-----------------------------------------------------------------------------
(* The rendering fallback, called on a parser that was parsed once *)

InitRender ==
    /\ robots_content \in {d \in Docs : Len(d.lines) <= MaxLinesReparsed}
    /\ InitParser
    /\ fetch = NoFetch
    /\ PLAYWRIGHT_AVAILABLE \in BOOLEAN
    /\ pw = NoRender
    /\ ApiAtRest
    /\ RunAtRest

NextRender ==
    \/ parse_call.n = 0 /\ \E rpo \in RpOutcomes, geto \in GetOutcomes : Parse(rpo, geto)
    \/ parse_call.n > 0 /\ \E url \in FetchUrls : RenderCall(url)
    \/ \E outcome \in StepOutcomes : RenderStep(outcome)

SpecRender == InitRender /\ [][NextRender]_vars

-----------------------------------------------------------------------------
(* extract_courses, called on a content tree *)

InitTree ==
    /\ robots_content = [lines |-> <<>>, sitemaps |-> <<>>]
    /\ InitParser
    /\ fetch = NoFetch
    /\ RenderAtRest
    /\ topic_tree \in Trees
    /\ api_courses = NoCourses
    /\ handler = NoHandler
    /\ RunAtRest

NextTree == ExtractCourses

SpecTree == InitTree /\ [][NextTree]_vars

-----------------------------------------------------------------------------
(* The persistence block, on a nested course list *)

InitFlatten ==
    /\ robots_content = [lines |-> <<>>, sitemaps |-> <<>>]
    /\ InitParser
    /\ fetch = NoFetch
    /\ RenderAtRest
    /\ ApiAtRest
    /\ all_courses \in NestedCourses
    /\ files = NoFiles
    /\ run = [NoRun EXCEPT !.n = 1, !.pc = "save"]

NextFlatten == SaveCourses

SpecFlatten == InitFlatten /\ [][NextFlatten]_vars

-----------------------------------------------------------------------------
(* The scraping branch of scrape_khan_academy, lines 234-328, and          *)
(* extract_course_details.  fetch_url and extract_with_playwright are      *)
(* called to their return: their results are those of the machines above.  *)

P_test_prep == <<"test-prep">>
P_college   == <<"college-careers-more">>

subject_urls == <<P_math, P_science, P_computing, P_humanities, P_economics,
                  P_test_prep, P_college>>

\* the subject listings of a run
NumSubjects == IF MaxSubjects < Len(subject_urls) THEN MaxSubjects ELSE Len(subject_urls)

\* what fetch_url(url, robots_parser) may come back with
FetchUrlResults(url) == IF ~CanFetch(url) THEN {"None"} ELSE {"response", "raised"}

\* what extract_with_playwright(url, robots_parser) may return
RenderResults(url) ==
    IF ~PLAYWRIGHT_AVAILABLE \/ ~CanFetch(url) THEN {"None"} ELSE {"content", "None"}

\* an element with a title and a link: complete, without its title element,
\* without its link element, or with a link element that has no href
ElementKinds == {"valid", "notitle", "nolink", "nohref"}

\* a document is the elements of its rendered form, and whether the document
\* as fetched has them already
SubjectPages ==
    { [cards |-> c, static |-> b] :
        c \in UNION { [1..k -> ElementKinds] : k \in 0..MaxCards }, b \in BOOLEAN }

UnitContainer == [heading |-> TRUE, items |-> <<"valid", "nolink", "nohref", "notitle">>]

CoursePages ==
    { [containers |-> c, static |-> b] :
        c \in {<<>>, <<UnitContainer>>, <<UnitContainer, [heading |-> FALSE, items |-> <<>>]>>},
        b \in BOOLEAN }

\* soup.select(selector) after the rendering fallback of lines 126-130 and
\* 250-254: the elements of the document as fetched, or of the rendered one
Selected(static_elements, rendered_elements, rr) ==
    IF static_elements # <<>> THEN static_elements
    ELSE IF rr = "content" THEN rendered_elements
    ELSE <<>>

RECURSIVE LessonsOfItems(_, _)
\* lines 145-160: the lessons of a unit container, from item k on
LessonsOfItems(items, k) ==
    IF k > Len(items) THEN <<>>
    ELSE (IF items[k] \in {"notitle", "nolink"} THEN <<>>
          ELSE <<[title |-> <<"Lesson", k>>,
                  url |-> IF items[k] = "nohref" THEN <<>> ELSE <<"lesson", k>>,
                  type |-> "Unknown"]>>)
         \o LessonsOfItems(items, k + 1)

\* lines 139-166
UnitsOf(containers) ==
    [j \in 1..Len(containers) |->
        [title |-> IF containers[j].heading THEN <<"Unit", j>> ELSE <<"Untitled Unit">>,
         lessons |-> LessonsOfItems(containers[j].items, 1)]]

\* extract_course_details(url, robots_parser): None, or the units; warned is
\* the selector warning of line 136
ExtractCourseDetails(fr, page, rr) ==
    IF fr = "None" THEN [none |-> TRUE, units |-> <<>>, warned |-> FALSE]
    ELSE IF fr = "raised" THEN [none |-> FALSE, units |-> <<>>, warned |-> FALSE]
    ELSE LET unit_containers ==
                 Selected(IF page.static THEN page.containers ELSE <<>>, page.containers, rr)
         IN IF unit_containers = <<>>
            THEN [none |-> FALSE, units |-> <<>>, warned |-> TRUE]
            ELSE [none |-> FALSE, units |-> UnitsOf(unit_containers), warned |-> FALSE]

\* the state after the subject listing in turn: the loop of line 237 goes on
NextSubject(r) ==
    [r EXCEPT !.subject = @ + 1, !.cards = <<>>,
              !.pc = IF r.subject + 1 > NumSubjects THEN "save" ELSE "scrape"]

\* what happens in a scraping run: a subject is taken up, a course page is
\* asked for, time.sleep(crawl_delay) is called, the error of a subject is
\* caught and printed
Event(e, s, place) == [e |-> e, subject |-> s, place |-> place]

\* time.sleep(crawl_delay), lines 290 and 297
Sleep(r) == [r EXCEPT !.events = Append(@, Event("sleep", r.subject, 0))]

\* the error of the subject leaves scrape_khan_academy
SubjectFailed_Uncaught(r) == [r EXCEPT !.pc = "uncaught"]

\* lines 299-301: `except Exception`, `continue`
SubjectFailed(r) ==
    NextSubject([r EXCEPT !.events = Append(@, Event("error", r.subject, 0))])

\* lines 237-260: one subject listing, up to its course cards
ScrapeSubject(fr, page, rr) ==
    /\ run.pc = "scrape"
    /\ LET subject_url == subject_urls[run.subject]
           course_cards == Selected(IF page.static THEN page.cards ELSE <<>>, page.cards, rr)
           r == [run EXCEPT !.log = <<>>,
                            !.events = Append(@, Event("subject", run.subject, 0))]
       IN /\ fr \in FetchUrlResults(subject_url)
          /\ rr \in RenderResults(subject_url)
          /\ run.seen + Len(page.cards) <= MaxCards
          /\ run' = IF fr = "raised" THEN SubjectFailed(r)
                    ELSE IF fr = "None" \/ course_cards = <<>> THEN NextSubject(r)
                    ELSE [r EXCEPT !.pc = "cards", !.cards = course_cards,
                                   !.seen = @ + Len(course_cards)]
    /\ UNCHANGED <<robots_content, parserVars, fetch, renderVars, apiVars, all_courses, files>>

\* the requirement of a link element alone
HasCourseUrl_AnyLink(card) == card \in {"valid", "nohref"}

\* lines 268-276: the card has a title element and a link element with an href
HasCourseUrl(card) == card = "valid"

\* lines 262-298: one course card of the listing
ProcessCard(fr, page, rr) ==
    /\ run.pc = "cards"
    /\ LET card == Head(run.cards)
           place == Len(run.log) + 1
           course_url == subject_urls[run.subject] \o <<"algebra">>
           course_details == ExtractCourseDetails(fr, page, rr)
           done(r, entry) == IF Len(r.cards) = 1
                             THEN [NextSubject(Sleep(r)) EXCEPT !.log = Append(@, entry)]
                             ELSE [r EXCEPT !.cards = Tail(@), !.log = Append(@, entry)]
           asked == [run EXCEPT !.events = Append(@, Event("course", run.subject, place))]
       IN IF ~HasCourseUrl(card)
          THEN /\ fr = "None" /\ rr = "None"
               /\ run' = done(run, [card |-> card, subject |-> run.subject, place |-> place,
                                    fetched |-> FALSE, recorded |-> FALSE,
                                    warned |-> FALSE])
               /\ UNCHANGED all_courses
          ELSE /\ fr \in FetchUrlResults(course_url)
               /\ rr \in RenderResults(course_url)
               /\ all_courses' =
                      Append(all_courses,
                             [title |-> <<"Card", run.subject, place>>, url |-> course_url,
                              description |-> <<>>,
                              subject |-> subject_urls[run.subject],
                              units |-> IF course_details.none THEN <<>>
                                        ELSE course_details.units])
               /\ run' = done(Sleep(asked),
                               [card |-> card, subject |-> run.subject, place |-> place,
                                fetched |-> TRUE, recorded |-> TRUE,
                                warned |-> course_details.warned])
    /\ UNCHANGED <<robots_content, parserVars, fetch, renderVars, apiVars, files>>

\* the policy documents of the scraping runs: none, one that closes /math, one
\* that opens /math/algebra before it closes /math
ScrapeDocs ==
    { [lines |-> <<>>, sitemaps |-> <<>>],
      [lines |-> <<UserAgentLine("*"), DisallowLine(P_math)>>, sitemaps |-> <<>>],
      [lines |-> <<UserAgentLine("*"), AllowLine(P_algebra), DisallowLine(P_math)>>,
       sitemaps |-> <<>>] }

\* the scraping branch as the fallback enters it when create_mock_data is off,
\* after a probe that failed
InitScrape ==
    /\ robots_content \in ScrapeDocs
    /\ InitParser
    /\ fetch = NoFetch
    /\ PLAYWRIGHT_AVAILABLE \in BOOLEAN
    /\ pw = NoRender
    /\ ApiAtRest
    /\ all_courses = <<>>
    /\ files = NoFiles
    /\ run = [NoRun EXCEPT !.n = 1, !.pc = "scrape", !.probe = "non200"]

NextScrape ==
    \/ parse_call.n = 0 /\ \E rpo \in {"ok", "http403"} : Parse(rpo, "200")
    \/ parse_call.n > 0 /\ \E fr \in {"None", "response", "raised"}, page \in SubjectPages,
                                 rr \in {"None", "content"} : ScrapeSubject(fr, page, rr)
    \/ parse_call.n > 0 /\ \E fr \in {"None", "response", "raised"}, page \in CoursePages,
                                 rr \in {"None", "content"} : ProcessCard(fr, page, rr)
    \/ SaveCourses

SpecScrape == InitScrape /\ [][NextScrape]_vars

-----------------------------------------------------------------------------
(* A KhanAcademyAPIHandler and the calls of its status methods *)

InitHandler ==
    /\ robots_content = [lines |-> <<>>, sitemaps |-> <<>>]
    /\ InitParser
    /\ fetch = NoFetch
    /\ CrawlAtRest

NextHandler ==
    \/ \E outcome \in ProbeOutcomes : CheckAvailabilityCall(outcome)
    \/ \E outcome \in ProbeOutcomes : GetApiStatus(outcome)

SpecHandler == InitHandler /\ [][NextHandler]_vars

-----------------------------------------------------------------------------
(* Crawl runs of __main__, one process after the other over the same files *)

InitRun ==
    /\ robots_content = [lines |-> <<>>, sitemaps |-> <<>>]
    /\ InitParser
    /\ fetch = NoFetch
    /\ CrawlAtRest

NextRun ==
    \/ MainStart
    \/ run.pc = "parse" /\ parse_call.n = 0
          /\ \E rpo \in RpOutcomes, geto \in GetOutcomes : Parse(rpo, geto)
    \/ SaveAnalysis
    \/ \E outcome \in ProbeOutcomes : CheckApiAvailability(outcome)
    \/ \E t \in RunTrees : ExtractContentToCsv(t)
    \/ \E seed \in Seeds : Fallback(seed)

SpecRun == InitRun /\ [][NextRun]_vars

-----------------------------------------------------------------------------
(* The claims *)

\* the last parse() could not read the policy document
ReadFailed ==
    /\ parse_call.n > 0
    /\ parse_call.rp = "urlerror" \/ parse_call.get \in {"non200", "exception"}

\* the last parse() read the raw policy document and analysed it
ParseSucceeded ==
    /\ parse_call.n > 0
    /\ parse_call.rp # "urlerror" /\ parse_call.get = "200"

\* the fixed default policy, as the specification words it
DefaultPolicy ==
    [allowed_paths |-> << <<"math">>, <<"science">>, <<"computing">>,
                          <<"humanities">>, <<"economics-finance-domain">> >>,
     disallowed_paths |-> << <<"profile">>, <<"login">>, <<"signup">> >>,
     sitemaps |-> <<>>, crawl_delay |-> 1, crawlability_score |-> 70]

\* C1: parse() never raises and always returns True, and whenever it could not
\* read the policy document the summary is exactly the default policy, whatever
\* the parser held before.
C1_ParseFailsSoft ==
    /\ parse_call.ret \in {"none", "True"}
    /\ ReadFailed => GetSummary = DefaultPolicy

\* a second parse() fails after a first one had read and analysed a document
\* with a sitemap and rules
C1_Witness ==
    /\ parse_call.n = 2
    /\ ReadFailed
    /\ rp.last_checked
    /\ robots_content.sitemaps # <<>>
    /\ \E i \in 1..Len(robots_content.lines) :
           robots_content.lines[i].k \in {"Allow", "Disallow"}

\* C2: after parse() fell back to the default policy, can_fetch allows every
\* URL under a default allowed path, and fetch_url does not short-circuit there.
C2_DefaultPolicyAllowsCrawl ==
    ReadFailed =>
        /\ \A u \in Urls :
               (\E i \in 1..Len(DefaultPolicy.allowed_paths) :
                    StartsWith(u, DefaultPolicy.allowed_paths[i])) => CanFetch(u)
        /\ (fetch.pc = "returned" /\ fetch.url = <<"math">>) => fetch.result # "None"

C4_OverrideForces70 ==
    (ParseSucceeded /\ allowed_paths = <<>> /\ Len(disallowed_paths) >= 1) =>
        crawlability_score = 70

\* the override applies where the sum of the terms is not 70
C4_Witness ==
    /\ ParseSucceeded
    /\ allowed_paths = <<>>
    /\ Len(disallowed_paths) >= 1
    /\ score # 70

\* the policy document of the end-to-end scenario
ScenarioDocument ==
    [lines |-> <<DisallowLine(<<"profile">>), DisallowLine(<<"login">>),
                 CrawlDelayLine(1)>>,
     sitemaps |-> <<SitemapUrl(1)>>]

\* C5, as stated: for the scenario's document the sum before the override is
\* 20 + 20 + 30 + 30 = 100, and the reported score is 70.
C5_Original ==
    (ParseSucceeded /\ robots_content = ScenarioDocument) =>
        score = 100 /\ crawlability_score = 70

\* C5, amended: for the scenario's document the sum before the override is
\* 20 + 20 + 0 + 30 = 70 (the ratio term is floor(30 * 0 / 2) = 0), and the
\* reported score is 70.
C5_ScenarioSum ==
    (ParseSucceeded /\ robots_content = ScenarioDocument) =>
        score = 20 + 20 + 0 + 30 /\ crawlability_score = 70

\* the scenario's document was parsed
C5_Witness == ParseSucceeded /\ robots_content = ScenarioDocument

\* C6: the crawlability score is always an integer from 0 to 100.
C6_ScoreInRange == crawlability_score \in 0..100

\* a parser parsed twice whose score is the largest the terms give
C6_Witness == parse_call.n = 2 /\ ParseSucceeded /\ crawlability_score = 100

\* the longest rule of a list that is a prefix of the URL (-1: none)
LongestMatch(paths, u) ==
    LET lens == {Len(paths[i]) : i \in {j \in 1..Len(paths) : StartsWith(u, paths[j])}}
    IN  IF lens = {} THEN -1 ELSE CHOOSE n \in lens : \A m \in lens : m <= n

\* every rule of the document stands in its one group, which is for every agent:
\* the rules the permission check answers from are those of the two path lists
OneGroupForAll ==
    LET lines == robots_content.lines
    IN  /\ Len(lines) >= 1
        /\ lines[1] = UserAgentLine("*")
        /\ \A i \in 2..Len(lines) : lines[i].k \in {"Allow", "Disallow"}

\* C7: after a successful parse can_fetch denies a URL exactly when a Disallow
\* rule matches it and no longer Allow rule does, whatever the order of the rules
\* (stated where the claim is at its strongest: both requests read the document,
\* and all its rules are in one group for every agent).
C7_LongestMatch ==
    (ParseSucceeded /\ parse_call.rp = "ok" /\ OneGroupForAll) =>
        \A u \in Urls :
            CanFetch(u) = ~(/\ LongestMatch(disallowed_paths, u) >= 0
                            /\ LongestMatch(allowed_paths, u)
                                   < LongestMatch(disallowed_paths, u))

\* C8: get_crawl_delay() returns the policy's delay whenever one is specified,
\* 0 included, and 1 only when none is.
C8_CrawlDelay ==
    parse_call.n > 0 =>
        GetCrawlDelay = IF crawl_delay = None THEN 1 ELSE crawl_delay

\* C9: a fetch_url call on a URL the policy denies issues no request, raises
\* nothing, is not tried again and returns None.
C9_DeniedFetchShortCircuits ==
    (fetch.pc # "idle" /\ ~CanFetch(fetch.url)) =>
        /\ fetch.requests = 0
        /\ fetch.attempts <= 1
        /\ fetch.pc # "raised"
        /\ fetch.pc = "returned" => fetch.result = "None"

\* a fetch of a denied URL has returned
C9_Witness ==
    /\ fetch.pc = "returned"
    /\ ~CanFetch(fetch.url)
    /\ fetch.attempts = 1

\* C10: a fetch_url call on an allowed URL makes at most 3 attempts, returns the
\* response of the first attempt that succeeds, and raises the third failure.
C10_AtMostThreeAttempts ==
    LET failed(k) == \A i \in 1..k : fetch.log[i] = "error"
    IN  /\ fetch.attempts <= 3
        /\ fetch.requests <= 3
        /\ Len(fetch.log) = fetch.requests
        /\ fetch.result = "response" =>
               /\ fetch.pc = "returned"
               /\ fetch.log[fetch.requests] = "ok"
               /\ failed(fetch.requests - 1)
        /\ fetch.pc = "raised" => fetch.requests = 3 /\ failed(3)
        /\ (fetch.pc = "running" /\ CanFetch(fetch.url)) =>
               fetch.requests < 3 /\ failed(fetch.requests)

\* two failures, then the third attempt returns its response
C10_Witness ==
    /\ fetch.pc = "returned"
    /\ fetch.result = "response"
    /\ fetch.log = <<"error", "error", "ok">>

Recorded(t) == { i \in 1..t.n : t.kind[i] = "Topic" /\ t.slug[i] # <<>> }

RECURSIVE Ancestors(_, _)
\* a node and the nodes above it
Ancestors(t, i) == IF i = 1 THEN {1} ELSE {i} \cup Ancestors(t, t.parent[i])

\* i comes before j in depth-first pre-order: i is above j, or, where their
\* ways from the root part, the way to i goes through the earlier child
PreOrderBefore(t, i, j) ==
    /\ i # j
    /\ \/ i \in Ancestors(t, j)
       \/ /\ j \notin Ancestors(t, i)
          /\ LET top(a, b) == CHOOSE x \in Ancestors(t, a) \ Ancestors(t, b) :
                                 \A y \in Ancestors(t, a) \ Ancestors(t, b) : x <= y
             IN top(i, j) < top(j, i)

\* the slugs from the root down to node i
SlugChain(t, i) == LET chain == SortedSeq(Ancestors(t, i))
                   IN [k \in 1..Len(chain) |-> t.slug[chain[k]]]

RECURSIVE SlashJoin(_)
\* "/".join(parts)
SlashJoin(parts) ==
    IF parts = <<>> THEN <<>>
    ELSE IF Len(parts) = 1 THEN parts[1]
    ELSE parts[1] \o <<"/">> \o SlashJoin(Tail(parts))

RECURSIVE DropLeadingEmpty(_)
DropLeadingEmpty(parts) ==
    IF parts # <<>> /\ Head(parts) = <<>> THEN DropLeadingEmpty(Tail(parts)) ELSE parts

\* one record per recorded node, in depth-first pre-order, each with its url
OneRecordPerTopicInPreOrder ==
    /\ Len(api_courses.courses) = Cardinality(Recorded(topic_tree))
    /\ { api_courses.courses[p].title : p \in 1..Len(api_courses.courses) } = Recorded(topic_tree)
    /\ \A p, q \in 1..Len(api_courses.courses) :
          p < q => PreOrderBefore(topic_tree, api_courses.courses[p].title, api_courses.courses[q].title)
    /\ \A p \in 1..Len(api_courses.courses) :
          /\ api_courses.courses[p].slug = topic_tree.slug[api_courses.courses[p].title]
          /\ api_courses.courses[p].url = site_base \o api_courses.courses[p].path

\* C15 as stated: extract_courses returns one record per Topic node with a
\* non-empty slug, in depth-first pre-order, and each record's path is the
\* slash-joined sequence of the slugs from the root down to its node.
C15_Original ==
    api_courses.returned =>
        /\ OneRecordPerTopicInPreOrder
        /\ \A p \in 1..Len(api_courses.courses) :
              api_courses.courses[p].path = SlashJoin(SlugChain(topic_tree, api_courses.courses[p].title))

\* C15, amended: one record per Topic node with a non-empty slug, in depth-first
\* pre-order, and each record's path is the slash-joined sequence of the slugs
\* from the root down to its node without the empty slugs that sequence starts
\* with.
C15_PathSkipsLeadingEmptySlugs ==
    api_courses.returned =>
        /\ OneRecordPerTopicInPreOrder
        /\ \A p \in 1..Len(api_courses.courses) :
              api_courses.courses[p].path =
                  SlashJoin(DropLeadingEmpty(SlugChain(topic_tree, api_courses.courses[p].title)))

\* a tree whose pre-order is not the order of the node numbers, with a node
\* that is not recorded above one that is, and a root without a slug
C15_Witness ==
    /\ api_courses.returned
    /\ topic_tree.n = 4
    /\ topic_tree.parent[4] = 2 /\ topic_tree.parent[3] = 1
    /\ topic_tree.slug[1] = <<>>
    /\ topic_tree.kind[2] = "Video"
    /\ Recorded(topic_tree) = {3, 4}
    /\ Len(api_courses.courses) = 2
    /\ api_courses.courses[1].title = 4


\* the lessons of a course, each as the pair of its unit and its place in it
LessonsOf(course) ==
    UNION { {j} \X (1..Len(course.units[j].lessons)) : j \in 1..Len(course.units) }

\* C16: the flat records the persistence block writes are in one-to-one,
\* order-preserving correspondence with the courses, each with unit_count the
\* number of units of its course and lesson_count the number of lessons over
\* those units.
C16_FlatteningCounts ==
    (run.pc = "done" /\ all_courses # <<>>) =>
        LET rows == files.data_csv.content
        IN /\ files.data_json.content = all_courses
           /\ Len(rows) = Len(all_courses)
           /\ \A i \in 1..Len(rows) :
                 /\ rows[i].title = all_courses[i].title
                 /\ rows[i].url = all_courses[i].url
                 /\ rows[i].description = all_courses[i].description
                 /\ rows[i].subject = all_courses[i].subject
                 /\ rows[i].unit_count = Len(all_courses[i].units)
                 /\ rows[i].lesson_count = Cardinality(LessonsOf(all_courses[i]))

\* two courses flattened: one of two units with 2 lessons each, one of none
C16_Witness ==
    /\ run.pc = "done"
    /\ Len(all_courses) = 2
    /\ Len(files.data_csv.content) = 2
    /\ files.data_csv.content[1].unit_count = 2
    /\ files.data_csv.content[1].lesson_count = 4
    /\ files.data_csv.content[2].unit_count = 0


StatusFields == {"api_available", "endpoints", "rate_limit", "authentication", "last_check"}

\* C12: the status record check_api_availability writes has the same fields on
\* success and on failure (available flag, endpoint paths, rate-limit string,
\* authentication string, timestamp), and only the available flag differs.
C12_SameStatusFields ==
    files.api_status.written > 0 =>
        /\ DOMAIN files.api_status.content = StatusFields
        /\ [files.api_status.content EXCEPT !.api_available = FALSE]
               = MockApiStatus(FALSE, files.api_status.written)

\* C13: a run whose probe met a non-success status or a transport error has
\* written api_status.json with api_available false and a last_check, fetches
\* the subject listings with fetch_url, and never puts synthetic course data in
\* the place of extracted output.
C13_FailedProbeLeadsToScraping ==
    (run.pc = "done" /\ run.probe \in {"non200", "exception"}) =>
        /\ files.api_status.written = run.n
        /\ files.api_status.content.api_available = FALSE
        /\ "last_check" \in DOMAIN files.api_status.content
        /\ fetch # NoFetch
        /\ run.seed = 0
        /\ all_courses \notin { create_mock_courses(seed) : seed \in Seeds }

\* C14: a run whose probe and whose extraction through the structured source
\* succeed ends right after persisting: no fetch_url call, no rendering session,
\* no scraped or synthetic artifact; and the fallback is entered only when the
\* probe failed or the extraction returned failure.
C14_ApiPathIsExclusive ==
    /\ (run.pc = "done" /\ run.extracted = "True") =>
           /\ files.api_csv.written = run.n
           /\ files.api_csv.content # <<>>
           /\ fetch = NoFetch
           /\ pw = NoRender
           /\ all_courses = <<>>
           /\ run.seed = 0
           /\ files.data_json.written # run.n
           /\ files.data_csv.written # run.n
    /\ (run.pc \in {"fallback", "scrape"} \/ run.seed # 0) =>
           \/ run.probe \in {"non200", "exception"}
           \/ run.probe = "200" /\ run.extracted = "False"

\* a second run ended on the API path, after a first run that fell back
C14_Witness ==
    /\ run.n = 2
    /\ run.pc = "done"
    /\ run.extracted = "True"
    /\ files.api_csv.written = 2
    /\ files.data_csv.written = 1

\* C17: two runs against an unchanged source (same policy document, same probe
\* outcome, same content tree) produce identical flattened course rows.
C17_SameRowsTwice ==
    (run.n = 2 /\ run.pc = "done" /\ run.probe = run.prev.probe
               /\ topic_tree = run.prev.tree) =>
        /\ files.data_csv.content = run.prev.rows
        /\ files.api_csv.content = run.prev.api_rows

\* C18: every run that completes has written the nested and the flattened
\* course artifact, so neither holds what an earlier run wrote.
C18_BothArtifactsEveryRun ==
    run.pc = "done" =>
        /\ files.data_json.written = run.n
        /\ files.data_csv.written = run.n


\* the course records of subject listing s, by the places of their cards
RecordedPlaces(s) ==
    { all_courses[i].title[3] : i \in { k \in 1..Len(all_courses) : all_courses[k].title[2] = s } }

\* the cards of a listing are processed one by one, each on its own, and the
\* records of the listing are in page order
CardsOneByOne ==
    /\ \A p \in 1..Len(run.log) : run.log[p].place = p
    /\ \A p \in 1..Len(run.log) : run.log[p].recorded <=> p \in RecordedPlaces(run.log[p].subject)
    /\ \A p \in 1..Len(run.log) : run.log[p].recorded <=> run.log[p].fetched
    /\ \A i, k \in 1..Len(all_courses) :
          (i < k /\ all_courses[i].title[2] = all_courses[k].title[2])
              => all_courses[i].title[3] < all_courses[k].title[3]

\* C19 as stated: a card without its title element or its link element gives
\* no record and no course-page fetch, and every other card of the page, which
\* has a title and a link, is extracted, in page order.
C19_Original ==
    /\ CardsOneByOne
    /\ \A p \in 1..Len(run.log) :
          run.log[p].recorded <=> run.log[p].card \notin {"notitle", "nolink"}

\* C19, amended: a card without its title element, without its link element or
\* with a link element that has no href gives no record and no course-page
\* fetch, and every other card of the page is extracted, in page order.
C19_IncompleteCardSkippedAlone ==
    /\ CardsOneByOne
    /\ \A p \in 1..Len(run.log) :
          run.log[p].recorded <=> run.log[p].card = "valid"

\* a card without link element was skipped and the complete card after it
\* extracted
C19_Witness ==
    /\ Len(run.log) = 2
    /\ run.log[1].card = "nolink" /\ ~run.log[1].fetched
    /\ run.log[2].card = "valid" /\ run.log[2].recorded
    /\ Len(all_courses) = 1
    /\ all_courses[1].title = <<"Card", run.log[2].subject, 2>>

\* C20: a course whose page yields no unit containers, after the fetch and the
\* rendering fallback, is warned about and skipped: no course record is added.
C20_NoUnitsNoRecord ==
    \A p \in 1..Len(run.log) : run.log[p].warned => ~run.log[p].recorded


\* C23: a second parse() on the same parser against the unchanged policy
\* document, fetched as the first time, leaves the summary as the first call
\* made it: the same allowed_paths, disallowed_paths and sitemaps, without
\* duplicates, and the same crawl_delay and crawlability_score.
C23_SecondParseSameSummary ==
    [][(/\ parse_call.n = 1 /\ parse_call.rp = "ok" /\ parse_call.get = "200"
        /\ parse_call'.n = 2 /\ parse_call'.rp = "ok" /\ parse_call'.get = "200")
           => GetSummary' = GetSummary]_vars


\* C24: what get_api_status() reports agrees with the most recent probe, true
\* after check_api_availability() returned true and false after it returned
\* false, and get_api_status() probes only when no probe was made before.
C24_StatusAgreesWithProbe ==
    handler.status.called =>
        /\ handler.returned = "True" => handler.status.api_available
        /\ handler.returned = "False" => ~handler.status.api_available
        /\ handler.status.probed <=> handler.status.probes_before = 0


IsSubjectEvent(ev) == ev.e = "subject"

\* the subjects the run has taken up, in the order it did
Attempted == SelectSeq(run.events, IsSubjectEvent)

\* C21: in the scraping phase no failure is fatal: whatever is denied, fails to
\* fetch, does not match or does not render, every configured subject is taken
\* up once, in configuration order, no error leaves the run, and the run goes
\* on until it is done.
C21_NoFailureIsFatal ==
    /\ run.pc # "uncaught"
    /\ \A k \in 1..Len(Attempted) : Attempted[k].subject = k
    /\ Len(Attempted) = (IF run.pc = "cards" THEN run.subject ELSE run.subject - 1)
    /\ run.pc \in {"save", "done"} => Len(Attempted) = NumSubjects
    /\ run.pc = "done" \/ ENABLED NextScrape

\* the run is done: the fetch of the first subject failed for good and its
\* error was caught, the second subject was taken up and gave a course, whose
\* page could not be fetched
C21_Witness ==
    /\ run.pc = "done"
    /\ Len(run.events) >= 3
    /\ run.events[1] = Event("subject", 1, 0)
    /\ run.events[2] = Event("error", 1, 0)
    /\ run.events[3] = Event("subject", 2, 0)
    /\ Len(all_courses) = 1
    /\ all_courses[1].subject = subject_urls[2]
    /\ all_courses[1].units = <<>>
    /\ ~run.log[1].warned
    /\ files.data_csv.written = 1

\* between two events of a kind there is a pause
PauseBetween(kind) ==
    \A i, j \in 1..Len(run.events) :
        (i < j /\ run.events[i].e = kind /\ run.events[j].e = kind)
            => \E k \in (i+1)..(j-1) : run.events[k].e = "sleep"

\* C22: in the scraping phase there is a crawl-delay pause between the handling
\* of any two consecutive subjects and between any two consecutive course-page
\* fetches, also when a subject was denied, failed to fetch or had no cards.
C22_PauseBetweenSubjectsAndCourses ==
    /\ PauseBetween("subject")
    /\ PauseBetween("course")

=============================================================================
